---- MODULE Spec2Model ----
(***************************************************************************)
(* A model of the rendering cache of sixtyfps_runtime/corelib/graphics.rs: *)
(* CachedGraphicsData (a payload plus the PropertyTracker of the           *)
(* computation that produced it) and RenderingCache (a slab::Slab of       *)
(* CachedGraphicsData plus a generation counter).                          *)
(*                                                                         *)
(* The cache is single-owner and synchronous, so every operation is one    *)
(* atomic action.  The caller of the cache (a rendering backend) is        *)
(* modelled as the environment: it constructs entries, inserts, looks up,  *)
(* removes and clears with arbitrary indices, and writes properties.       *)
(*                                                                         *)
(* The second half models the live preview of tools/lsp/preview.rs: the    *)
(* content cache behind its mutex, FutureRunner and the closures it posts  *)
(* to the UI event loop, and reload_preview as the steps of one future.    *)
(* A background thread (the language server) calls set_contents and        *)
(* load_preview; the UI thread runs the posted closures.                   *)
(***************************************************************************)
EXTENDS Integers, Sequences, FiniteSets, TLC

\* ------------------------------------------------------------------ bounds
\* Largest number of slots the slab's entry vector grows to.
MaxSlots == 3
\* Largest number of clear() calls (caps the generation counter, a usize).
MaxClears == 2
\* Number of distinct backend payloads (the opaque T) a computation returns.
NumPayloads == 2
\* Number of reactive properties a computation can read.
NumProps == 1
\* Slots and clear() calls when the trackers are exercised (TrackerSpec).
TrackerSlots == 1
TrackerClears == 1
\* Slots and clear() calls when the caller keeps every handle (CallerSpec).
CallerSlots == 2
CallerClears == 2

\* Files the language server knows of.
NumPaths == 2
\* Distinct file contents set_contents can write.
NumContents == 2
\* Calls of load_preview by the language server in a run.
MaxRuns == 1
\* Calls of set_contents in a run.
MaxEdits == 1
\* The runs of the event-loop specification: load_preview calls,
\* set_contents calls, times a compile returns Pending, and wakes of a
\* waker the compiler kept beyond the one that resumes the compile.
RunnerRuns == 2
RunnerEdits == 1
MaxPends == 1
MaxExtraWakes == 1
\* The runs of the notification specification.
NotifyRuns == 1
NotifyEdits == 1
\* The runs of the specification with fairness.
LiveRuns == 1
LiveEdits == 2
LivePends == 1

Payloads == 1..NumPayloads
Props == 1..NumProps
\* A property holds a boolean.
Values == BOOLEAN
\* Indices a caller may pass: every slot plus one index past the table.
Indices == 0..MaxSlots

VARIABLES
    cache,      \* RenderingCache { slab, generation }
    props,      \* the reactive properties' current values
    pending,    \* a CachedGraphicsData the caller constructed and still owns
    panicked,   \* remove() hit slab's "invalid key" panic
    nClears,    \* history: number of clear() calls so far
    handles,    \* the (index, generation) pairs a caller stored at insert time
    issued,     \* history: every index an insert returned so far
    live,       \* history: index -> payload of the entry put there and not removed
    freed,      \* history: indices removed and not returned by an insert since
    cleared,    \* history: indices occupied at a clear and not returned by an insert since
    run,        \* history: indices inserts returned since the last remove/clear
    nLive       \* history: entries inserted and neither removed nor cleared since

vars == <<cache, props, pending, panicked, nClears, handles, issued, live,
          freed, cleared, run, nLive>>

VARIABLES
    content_cache,  \* CONTENT_CACHE: source_code, dependency, current_root, sender
    cache_lock,     \* owner of CONTENT_CACHE's mutex: "free", "bg" or "ui"
    preview_state,  \* PREVIEW_STATE.handle of the UI thread
    runners,        \* the FutureRunners created so far, each with its future
    fut_lock,       \* owner of each FutureRunner's fut mutex
    queue,          \* closures posted to the UI event loop and not run yet
    ui,             \* the closure the UI thread is running (0: none)
    bg,             \* the call the background thread is in
    receiver,       \* the notification channel's receiver still exists
    pends,          \* history: times a compile returned Pending
    extra,          \* history: extra wakes posted
    edits,          \* history: calls of set_contents
    ticket,         \* history: closures posted so far
    ran,            \* history: ticket of the closure run last
    requested,      \* history: paths asked of get_file_from_cache since the last dependency.clear()
    audit           \* history: polls of a future that had returned Ready

pvars == <<content_cache, cache_lock, preview_state, runners, fut_lock, queue,
           ui, bg, receiver, pends, extra, edits, ticket, ran, requested, audit>>

\* --------------------------------------------------------- PropertyTracker
\* PropertyTracker::default(): no dependencies, not dirty.
TrackerDefault == [deps |-> {}, dirty |-> FALSE]

\* PropertyTracker::evaluate(f): runs f with the tracker as the active
\* observer; every property f reads registers with the tracker, and the
\* tracker is clean afterwards.
TrackerEvaluate(tracker, reads) == [deps |-> reads, dirty |-> FALSE]

\* PropertyTracker::is_dirty()
TrackerIsDirty(tracker) == tracker.dirty

\* A change of property p marks every tracker that depends on p dirty; the
\* mark stays until the tracker evaluates again.
TrackerNotify(tracker, p) ==
    [tracker EXCEPT !.dirty = @ \/ (p \in tracker.deps)]

\* ------------------------------------------------------ CachedGraphicsData
\* Option::None for an Option<&CachedGraphicsData<T>>.
NoEntry == [data |-> 0, reads |-> {},
            dependency_tracker |-> TrackerDefault, changed |-> FALSE,
            outlived |-> FALSE]

\* A mutant of CachedGraphicsData_new: update_fn is run outside the tracker,
\* so nothing registers.
CachedGraphicsData_new_untracked(data, reads) ==
    [data |-> data, reads |-> reads,
     dependency_tracker |-> [deps |-> {}, dirty |-> FALSE],
     changed |-> FALSE, outlived |-> FALSE]

\* A mutant of CachedGraphicsData_new: the tracker registers every property,
\* read or not.
CachedGraphicsData_new_tracks_all(data, reads) ==
    [data |-> data, reads |-> reads,
     dependency_tracker |-> [deps |-> Props, dirty |-> FALSE],
     changed |-> FALSE, outlived |-> FALSE]

\* CachedGraphicsData::new(update_fn), for an update_fn that returns data
\* and reads the properties in reads.  reads is a history field, like
\* changed (a property update_fn read changed value since construction)
\* and outlived (some property changed value since construction).
CachedGraphicsData_new(data, reads) ==
    [data |-> data, reads |-> reads,
     dependency_tracker |-> TrackerEvaluate(TrackerDefault, reads),
     changed |-> FALSE, outlived |-> FALSE]

\* ------------------------------------------------------------- slab::Slab
\* Entry::Occupied(val) and Entry::Vacant(next)
Occupied(val) == [occ |-> TRUE, val |-> val, nxt |-> 0]
Vacant(nxt) == [occ |-> FALSE, val |-> NoEntry, nxt |-> nxt]

\* Slab::default(): no entries, next vacant key 0.
SlabNew == [entries |-> <<>>, next |-> 0, len |-> 0]

\* Slab::get / Slab::get_mut: key k is entries[k] (1-based here).
SlabGet(s, k) ==
    IF k < Len(s.entries) /\ s.entries[k + 1].occ
    THEN s.entries[k + 1].val
    ELSE NoEntry

\* Slab::insert: the key is the head of the vacant list, or the end of the
\* entry vector when the list is empty.
SlabInsert(s, val) ==
    LET key == s.next IN
    [key |-> key,
     slab |-> IF key = Len(s.entries)
              THEN [entries |-> Append(s.entries, Occupied(val)),
                    next |-> key + 1, len |-> s.len + 1]
              ELSE [entries |-> [s.entries EXCEPT ![key + 1] = Occupied(val)],
                    next |-> s.entries[key + 1].nxt, len |-> s.len + 1]]

\* Slab::remove: an occupied entry becomes the head of the vacant list;
\* anything else panics with "invalid key" and changes nothing.
SlabRemove(s, k) ==
    IF k < Len(s.entries) /\ s.entries[k + 1].occ
    THEN [panic |-> FALSE, val |-> s.entries[k + 1].val,
          slab |-> [entries |-> [s.entries EXCEPT ![k + 1] = Vacant(s.next)],
                    next |-> k, len |-> s.len - 1]]
    ELSE [panic |-> TRUE, val |-> NoEntry, slab |-> s]

\* Slab::clear
SlabClear(s) == [entries |-> <<>>, next |-> 0, len |-> 0]

\* --------------------------------------------------------- RenderingCache
\* A mutant of Default: the generation starts at 0, as a derived Default
\* would make it.
Default_derived == [slab |-> SlabNew, generation |-> 0]

\* impl Default for RenderingCache
Default == [slab |-> SlabNew, generation |-> 1]

\* RenderingCache::generation
generation(c) == c.generation

\* RenderingCache::get
get(c, index) == SlabGet(c.slab, index)

\* A mutant of get_mut: looks one slot too far.
get_mut_off_by_one(c, index) == SlabGet(c.slab, index + 1)

\* RenderingCache::get_mut
get_mut(c, index) == SlabGet(c.slab, index)

\* A mutant of insert: always appends, returning the number of live entries
\* as the index.
insert_by_len(c, data) ==
    [index |-> c.slab.len,
     cache |-> [c EXCEPT !.slab =
         [entries |-> IF c.slab.len < Len(c.slab.entries)
                      THEN [c.slab.entries EXCEPT ![c.slab.len + 1] = Occupied(data)]
                      ELSE Append(c.slab.entries, Occupied(data)),
          next |-> c.slab.next + 1, len |-> c.slab.len + 1]]]

\* RenderingCache::insert
insert(c, data) ==
    LET r == SlabInsert(c.slab, data) IN
    [index |-> r.key, cache |-> [c EXCEPT !.slab = r.slab]]

\* A mutant of remove: the slot is freed but not pushed on the vacant list.
remove_no_free_list(c, index) ==
    LET r == SlabRemove(c.slab, index) IN
    [panic |-> r.panic, data |-> r.val,
     cache |-> [c EXCEPT !.slab = [r.slab EXCEPT !.next = c.slab.next]]]

\* A mutant of remove: the last slot's entry is moved into the freed slot,
\* as Vec::swap_remove does.
remove_swap(c, index) ==
    LET r == SlabRemove(c.slab, index)
        n == Len(c.slab.entries) IN
    [panic |-> r.panic, data |-> r.val,
     cache |-> IF r.panic \/ index + 1 = n THEN [c EXCEPT !.slab = r.slab]
               ELSE [c EXCEPT !.slab = [r.slab EXCEPT
                        !.entries = [r.slab.entries EXCEPT
                            ![index + 1] = c.slab.entries[n],
                            ![n] = Vacant(c.slab.next)],
                        !.next = n - 1]]]

\* A mutant of remove: a key that is not occupied yields nothing instead of
\* panicking.
remove_lenient(c, index) ==
    LET r == SlabRemove(c.slab, index) IN
    [panic |-> FALSE, data |-> r.val, cache |-> [c EXCEPT !.slab = r.slab]]

\* RenderingCache::remove
remove(c, index) ==
    LET r == SlabRemove(c.slab, index) IN
    [panic |-> r.panic, data |-> r.val, cache |-> [c EXCEPT !.slab = r.slab]]

\* A mutant of clear: the generation is not increased.
clear_same_generation(c) == [slab |-> SlabClear(c.slab), generation |-> c.generation]

\* A mutant of clear: the generation is increased but the slab is kept.
clear_keeps_slab(c) == [slab |-> c.slab, generation |-> c.generation + 1]

\* RenderingCache::clear
clear(c) == [slab |-> SlabClear(c.slab), generation |-> c.generation + 1]

\* ----------------------------------------------------------------- state
\* A property write reaches the tracker of an entry (and its history field)
\* only when the value changes.
Notified(e, p, v) ==
    IF v = props[p] THEN e
    ELSE [e EXCEPT !.dependency_tracker = TrackerNotify(@, p),
                   !.changed = @ \/ (p \in e.reads),
                   !.outlived = TRUE]

NotifiedSlab(s, p, v) ==
    [s EXCEPT !.entries =
        [k \in DOMAIN s.entries |->
            IF s.entries[k].occ
            THEN [s.entries[k] EXCEPT !.val = Notified(@, p, v)]
            ELSE s.entries[k]]]

\* ---------------------------------------------------------- live preview
Paths == 1..NumPaths
Contents == 1..NumContents
\* PathBuf::default(), the current_root of a new ContentCache.
NoPath == 0
\* source_code has no entry for the path: the compiler reads the file.
OnDisk == 0

\* ContentCache::default()
ContentCacheDefault ==
    [source_code |-> [p \in Paths |-> OnDisk], dependency |-> {},
     current_root |-> NoPath, sender |-> FALSE]

\* PreviewState::default()
PreviewStateDefault == [handle |-> [root |-> NoPath, from |-> <<>>]]

\* ComponentCompiler::build_from_source / build_from_path yields a
\* component unless a file it read does not compile; the last content is
\* the one that does not.
Compiles(from) == \A p \in DOMAIN from : from[p] # NumContents

\* A mutant of get_file_from_cache: only a path with cached content is
\* registered as a dependency.
get_file_from_cache_cached_only(cc, path) ==
    [r |-> cc.source_code[path],
     cache |-> IF cc.source_code[path] = OnDisk THEN cc
               ELSE [cc EXCEPT !.dependency = @ \cup {path}]]

\* get_file_from_cache, between lock() and the guard's drop.
get_file_from_cache(cc, path) ==
    [r |-> cc.source_code[path],
     cache |-> [cc EXCEPT !.dependency = @ \cup {path}]]

\* A mutant of set_contents: the guard is not dropped before load_preview.
set_contents_keeps_guard(cc, path, content) ==
    LET c1 == [cc EXCEPT !.source_code[path] = content] IN
    IF path \in c1.dependency
    THEN [cache |-> [c1 EXCEPT !.sender = FALSE], load |-> c1.sender,
          root |-> c1.current_root, dropped |-> FALSE]
    ELSE [cache |-> c1, load |-> FALSE, root |-> NoPath, dropped |-> TRUE]

\* set_contents, between lock() and load_preview: the new cache, whether
\* load_preview(sender, root) follows, and whether the guard was dropped
\* before it.
set_contents(cc, path, content) ==
    LET c1 == [cc EXCEPT !.source_code[path] = content] IN
    IF path \in c1.dependency
    THEN [cache |-> [c1 EXCEPT !.sender = FALSE], load |-> c1.sender,
          root |-> c1.current_root, dropped |-> TRUE]
    ELSE [cache |-> c1, load |-> FALSE, root |-> NoPath, dropped |-> TRUE]

\* A mutant of send_notification: a send error is unwrapped.
send_notification_unwrap(alive, sent, msg, health) ==
    [sent |-> Append(sent, [msg |-> msg, health |-> health, delivered |-> alive]),
     panic |-> ~alive]

\* send_notification: the message goes to the channel; an error (the
\* receiver is gone) is printed and dropped.  sent is the history of the
\* future's sends.
send_notification(alive, sent, msg, health) ==
    [sent |-> Append(sent, [msg |-> msg, health |-> health, delivered |-> alive]),
     panic |-> FALSE]

\* Backend::post_event: the closure is queued behind those posted before.
PostEvent(q, closure) == Append(q, closure)

\* A mutant of FutureRunner_wake: the closure jumps the queue.
FutureRunner_wake_front(q, id, t) == <<[id |-> id, ticket |-> t]>> \o q

\* FutureRunner::wake: posts the closure that polls runner id; t numbers
\* the posts.
FutureRunner_wake(q, id, t) == PostEvent(q, [id |-> id, ticket |-> t])

\* A mutant of closure_ready: the finished future is left in place.
closure_ready_keeps_future(runner) == runner

\* The closure on Poll::Ready: *fut_opt = None, which drops the future and
\* what it holds.
closure_ready(runner) ==
    [runner EXCEPT !.fut = FALSE, !.path = NoPath, !.imp = NoPath, !.from = <<>>]

\* The future of load_preview's async block, not polled yet: reload_preview
\* at its start.  sent is history; waiting says the compiler holds the
\* waker of a suspended compile.
reload_preview_future(path) ==
    [fut |-> TRUE, pc |-> "start", path |-> path, imp |-> NoPath, from |-> <<>>,
     sent |-> <<>>, waiting |-> FALSE]

\* A mutant of run_in_ui_thread: the future is polled once where it is
\* created before its runner is woken.
run_in_ui_thread_polls(rs, q, fut, t) ==
    [runners |-> Append(rs, [fut EXCEPT !.pc = "want_clear",
                                        !.sent = <<[msg |-> "Loading", health |-> "Ok",
                                                    delivered |-> TRUE]>>]),
     queue |-> FutureRunner_wake(q, Len(rs) + 1, t)]

\* run_in_ui_thread: a new FutureRunner holding the future, then wake().
run_in_ui_thread(rs, q, fut, t) ==
    [runners |-> Append(rs, fut),
     queue |-> FutureRunner_wake(q, Len(rs) + 1, t)]

\* load_preview
load_preview(rs, q, path, t) ==
    run_in_ui_thread(rs, q, reload_preview_future(path), t)

Idle == [pc |-> "idle", path |-> NoPath, content |-> OnDisk]
NoClosure == [id |-> 0, phase |-> "none"]

PreviewInit ==
    /\ content_cache = ContentCacheDefault
    /\ cache_lock = "free"
    /\ preview_state = PreviewStateDefault
    /\ runners = <<>>
    /\ fut_lock = <<>>
    /\ queue = <<>>
    /\ ui = NoClosure
    /\ bg = Idle
    /\ receiver = TRUE
    /\ pends = 0
    /\ extra = 0
    /\ edits = 0
    /\ ticket = 0
    /\ ran = 0
    /\ requested = {}
    /\ audit = {}

Init ==
    /\ PreviewInit
    /\ cache = Default
    /\ props = [p \in Props |-> FALSE]
    /\ pending = NoEntry
    /\ panicked = FALSE
    /\ nClears = 0
    /\ handles = {}
    /\ issued = {}
    /\ live = <<>>
    /\ freed = {}
    /\ cleared = {}
    /\ run = {}
    /\ nLive = 0

\* The caller constructs a CachedGraphicsData from a computation that
\* returns data and reads the properties in reads.
New(data, reads) ==
    /\ ~panicked
    /\ UNCHANGED pvars
    /\ pending = NoEntry
    /\ pending' = CachedGraphicsData_new(data, reads)
    /\ UNCHANGED <<cache, props, panicked, nClears, handles, issued, live, freed,
                   cleared, run, nLive>>

\* cache.insert(pending); a caller that keeps handles stores the pair
\* (index, generation()), with the number of clears so far as history.
Insert(slots, keeps) ==
    /\ ~panicked
    /\ UNCHANGED pvars
    /\ pending # NoEntry
    /\ LET r == insert(cache, pending) IN
        /\ Len(r.cache.slab.entries) <= slots
        /\ cache' = r.cache
        /\ handles' = IF keeps
                      THEN handles \cup {[index |-> r.index,
                                          generation |-> generation(r.cache),
                                          clears |-> nClears]}
                      ELSE handles
        /\ issued' = issued \cup {r.index}
        /\ live' = [i \in (DOMAIN live) \cup {r.index} |->
                        IF i = r.index THEN pending.data ELSE live[i]]
        /\ freed' = freed \ {r.index}
        /\ cleared' = cleared \ {r.index}
        /\ run' = run \cup {r.index}
        /\ nLive' = nLive + 1
    /\ pending' = NoEntry
    /\ UNCHANGED <<props, panicked, nClears>>

\* cache.get(index): a lookup through &self, which changes nothing.
Get(index) ==
    /\ ~panicked
    /\ UNCHANGED pvars
    /\ UNCHANGED vars

\* cache.get_mut(index), the caller only reading through the reference.
GetMut(index) ==
    /\ ~panicked
    /\ UNCHANGED pvars
    /\ UNCHANGED vars

\* cache.get_mut(index), the caller replacing the entry in place with the
\* one it recomputed.
GetMutReplace(index) ==
    /\ ~panicked
    /\ UNCHANGED pvars
    /\ pending # NoEntry
    /\ get_mut(cache, index) # NoEntry
    /\ cache' = [cache EXCEPT !.slab.entries[index + 1] = Occupied(pending)]
    /\ live' = [live EXCEPT ![index] = pending.data]
    /\ pending' = NoEntry
    /\ UNCHANGED <<props, panicked, nClears, handles, issued, freed, cleared, run,
                   nLive>>

\* cache.remove(index): returns the entry, or panics.
Remove(index) ==
    /\ ~panicked
    /\ UNCHANGED pvars
    /\ LET r == remove(cache, index) IN
        /\ cache' = r.cache
        /\ panicked' = r.panic
        /\ live' = IF r.panic THEN live
                   ELSE [i \in (DOMAIN live) \ {index} |-> live[i]]
        /\ freed' = IF r.panic THEN freed ELSE freed \cup {index}
        /\ run' = IF r.panic THEN run ELSE {}
        /\ nLive' = IF r.panic THEN nLive ELSE nLive - 1
    /\ UNCHANGED <<props, pending, nClears, handles, issued, cleared>>

\* cache.clear()
Clear(clears) ==
    /\ ~panicked
    /\ UNCHANGED pvars
    /\ nClears < clears
    /\ cache' = clear(cache)
    /\ nClears' = nClears + 1
    /\ live' = <<>>
    /\ cleared' = cleared \cup {i \in Indices : get(cache, i) # NoEntry}
    /\ run' = {}
    /\ nLive' = 0
    /\ UNCHANGED <<props, pending, panicked, handles, issued, freed>>

\* A write of value v to property p.
SetProperty(p, v) ==
    /\ ~panicked
    /\ UNCHANGED pvars
    /\ props' = [props EXCEPT ![p] = v]
    /\ cache' = [cache EXCEPT !.slab = NotifiedSlab(@, p, v)]
    /\ pending' = IF pending = NoEntry THEN NoEntry ELSE Notified(pending, p, v)
    /\ UNCHANGED <<panicked, nClears, handles, issued, live, freed, cleared, run,
                   nLive>>

\* The cache driven with computations that read no property.
Next ==
    \/ \E data \in Payloads : New(data, {})
    \/ Insert(MaxSlots, FALSE)
    \/ \E index \in Indices : Get(index)
    \/ \E index \in Indices : GetMut(index)
    \/ \E index \in Indices : GetMutReplace(index)
    \/ \E index \in Indices : Remove(index)
    \/ Clear(MaxClears)

Spec == Init /\ [][Next]_vars

\* A small cache driven with computations that read properties, and
\* property writes.
TrackerNext ==
    \/ \E reads \in SUBSET Props : New(1, reads)
    \/ Insert(TrackerSlots, FALSE)
    \/ \E index \in 0..TrackerSlots : Get(index)
    \/ \E index \in 0..TrackerSlots : GetMut(index)
    \/ \E index \in 0..TrackerSlots : GetMutReplace(index)
    \/ \E index \in 0..TrackerSlots : Remove(index)
    \/ Clear(TrackerClears)
    \/ \E p \in Props, v \in Values : SetProperty(p, v)

TrackerSpec == Init /\ [][TrackerNext]_vars

\* A small cache driven by a caller that stores the pair (index,
\* generation()) of every insert and keeps it across clears.
CallerNext ==
    \/ New(1, {})
    \/ Insert(CallerSlots, TRUE)
    \/ \E index \in 0..CallerSlots : Get(index)
    \/ \E index \in 0..CallerSlots : GetMut(index)
    \/ \E index \in 0..CallerSlots : GetMutReplace(index)
    \/ \E index \in 0..CallerSlots : Remove(index)
    \/ Clear(CallerClears)

CallerSpec == Init /\ [][CallerNext]_vars

\* -------------------------------------------------- live preview: steps
\* The closure that is running on the UI thread has locked its runner's
\* future and is polling it.
Polling == ui.phase = "poll"

\* The closure returns: the guard on fut is dropped.
ClosureReturns ==
    /\ fut_lock' = [fut_lock EXCEPT ![ui.id] = "free"]
    /\ ui' = NoClosure

\* A mutant of reload_finish: the handle is replaced whatever the compiler
\* returned.
reload_finish_always_swaps(ps, runner, alive) ==
    IF Compiles(runner.from)
    THEN [state |-> [ps EXCEPT !.handle = [root |-> runner.path, from |-> runner.from]],
          n |-> send_notification(alive, runner.sent, "Preview Loaded", "Ok")]
    ELSE [state |-> [ps EXCEPT !.handle = [root |-> runner.path, from |-> runner.from]],
          n |-> send_notification(alive, runner.sent, "Preview not upated", "Error")]

\* A mutant of reload_finish: a failed compile is not reported.
reload_finish_silent_failure(ps, runner, alive) ==
    IF Compiles(runner.from)
    THEN [state |-> [ps EXCEPT !.handle = [root |-> runner.path, from |-> runner.from]],
          n |-> send_notification(alive, runner.sent, "Preview Loaded", "Ok")]
    ELSE [state |-> ps, n |-> [sent |-> runner.sent, panic |-> FALSE]]

\* reload_preview after the compiler returned: on Some(compiled) the handle
\* in PREVIEW_STATE is replaced and "Preview Loaded" is sent, otherwise
\* "Preview not upated" with Health::Error.
reload_finish(ps, runner, alive) ==
    IF Compiles(runner.from)
    THEN [state |-> [ps EXCEPT !.handle = [root |-> runner.path, from |-> runner.from]],
          n |-> send_notification(alive, runner.sent, "Preview Loaded", "Ok")]
    ELSE [state |-> ps,
          n |-> send_notification(alive, runner.sent, "Preview not upated", "Error")]

\* The language server calls load_preview(sender, path, ShowAfterLoad).
LoadPreview(path, runs) ==
    /\ bg.pc = "idle"
    /\ Len(runners) < runs
    /\ LET l == load_preview(runners, queue, path, ticket + 1) IN
        /\ runners' = l.runners
        /\ queue' = l.queue
    /\ fut_lock' = Append(fut_lock, "free")
    /\ ticket' = ticket + 1
    /\ UNCHANGED <<content_cache, cache_lock, preview_state, ui, bg, receiver,
                   pends, extra, ran, requested, audit, edits>>
    /\ UNCHANGED vars

\* The language server calls set_contents(path, content).
SetContentsCall(path, content, calls) ==
    /\ bg.pc = "idle"
    /\ edits < calls
    /\ edits' = edits + 1
    /\ bg' = [pc |-> "sc_lock", path |-> path, content |-> content]
    /\ UNCHANGED <<content_cache, cache_lock, preview_state, runners, fut_lock,
                   queue, ui, receiver, pends, extra, ticket, ran, requested, audit>>
    /\ UNCHANGED vars

\* set_contents: CONTENT_CACHE.lock()
SetContentsLock ==
    /\ bg.pc = "sc_lock"
    /\ cache_lock = "free"
    /\ cache_lock' = "bg"
    /\ bg' = [bg EXCEPT !.pc = "sc_body"]
    /\ UNCHANGED <<content_cache, preview_state, runners, fut_lock, queue, ui,
                   receiver, pends, extra, ticket, ran, requested, audit, edits>>
    /\ UNCHANGED vars

\* set_contents: the body under the lock, up to drop(cache).
SetContentsBody ==
    /\ bg.pc = "sc_body"
    /\ LET s == set_contents(content_cache, bg.path, bg.content) IN
        /\ content_cache' = s.cache
        /\ cache_lock' = IF s.dropped THEN "free" ELSE "bg"
        /\ bg' = IF s.load THEN [pc |-> "sc_load", path |-> s.root, content |-> OnDisk]
                 ELSE Idle
    /\ UNCHANGED <<preview_state, runners, fut_lock, queue, ui, receiver, pends,
                   extra, ticket, ran, requested, audit, edits>>
    /\ UNCHANGED vars

\* set_contents: load_preview(sender, current_root, DoNothing), then the
\* function returns.
SetContentsLoad ==
    /\ bg.pc = "sc_load"
    /\ LET l == load_preview(runners, queue, bg.path, ticket + 1) IN
        /\ runners' = l.runners
        /\ queue' = l.queue
    /\ fut_lock' = Append(fut_lock, "free")
    /\ ticket' = ticket + 1
    /\ cache_lock' = IF cache_lock = "bg" THEN "free" ELSE cache_lock
    /\ bg' = Idle
    /\ UNCHANGED <<content_cache, preview_state, ui, receiver, pends, extra, ran,
                   requested, audit, edits>>
    /\ UNCHANGED vars

\* The client goes away: the receiving end of the channel is dropped.
DropReceiver ==
    /\ receiver
    /\ receiver' = FALSE
    /\ UNCHANGED <<content_cache, cache_lock, preview_state, runners, fut_lock,
                   queue, ui, bg, pends, extra, ticket, ran, requested, audit, edits>>
    /\ UNCHANGED vars

\* The compiler's pending work finishes and wakes the waker it was given.
\* (A waker is an Arc of the runner: Wake::wake on it.)
Wake(id) ==
    /\ id \in DOMAIN runners
    /\ runners[id].waiting
    /\ runners' = [runners EXCEPT ![id].waiting = FALSE]
    /\ queue' = FutureRunner_wake(queue, id, ticket + 1)
    /\ ticket' = ticket + 1
    /\ UNCHANGED <<content_cache, cache_lock, preview_state, fut_lock, ui, bg,
                   receiver, pends, extra, ran, requested, audit, edits>>
    /\ UNCHANGED vars

\* A clone of a waker handed out in an earlier poll is woken once more.
ExtraWake(id, max) ==
    /\ id \in DOMAIN runners
    /\ runners[id].pc # "start"
    /\ extra < max
    /\ extra' = extra + 1
    /\ queue' = FutureRunner_wake(queue, id, ticket + 1)
    /\ ticket' = ticket + 1
    /\ UNCHANGED <<content_cache, cache_lock, preview_state, runners, fut_lock, ui,
                   bg, receiver, pends, ran, requested, audit, edits>>
    /\ UNCHANGED vars

\* The event loop takes the closure at the head of its queue and runs it.
UiTake ==
    /\ ui = NoClosure
    /\ queue # <<>>
    /\ ui' = [id |-> Head(queue).id, phase |-> "lock"]
    /\ ran' = Head(queue).ticket
    /\ queue' = Tail(queue)
    /\ UNCHANGED <<content_cache, cache_lock, preview_state, runners, fut_lock, bg,
                   receiver, pends, extra, ticket, requested, audit, edits>>
    /\ UNCHANGED vars

\* The closure: self.fut.lock(), then if let Some(fut): a future that is
\* there is polled, otherwise the closure returns.
ClosureLock ==
    /\ ui.phase = "lock"
    /\ fut_lock[ui.id] = "free"
    /\ IF runners[ui.id].fut /\ runners[ui.id].pc \notin {"ready", "panicked"}
       THEN /\ ui' = [ui EXCEPT !.phase = "poll"]
            /\ fut_lock' = [fut_lock EXCEPT ![ui.id] = "ui"]
            /\ audit' = audit
       ELSE /\ ui' = NoClosure
            /\ fut_lock' = fut_lock
            /\ audit' = IF runners[ui.id].fut
                        THEN audit \cup {<<"polled_after_ready", ui.id>>}
                        ELSE audit
    /\ UNCHANGED <<content_cache, cache_lock, preview_state, runners, queue, bg,
                   receiver, pends, extra, ticket, ran, requested, edits>>
    /\ UNCHANGED vars

\* reload_preview: send_notification("Loading Preview…", Health::Ok)
ReloadNotify ==
    /\ Polling
    /\ runners[ui.id].pc = "start"
    /\ LET n == send_notification(receiver, runners[ui.id].sent, "Loading Preview", "Ok") IN
        IF n.panic
        THEN /\ runners' = [runners EXCEPT ![ui.id].pc = "panicked", ![ui.id].sent = n.sent]
             /\ ClosureReturns
        ELSE /\ runners' = [runners EXCEPT ![ui.id].pc = "lock_clear", ![ui.id].sent = n.sent]
             /\ UNCHANGED <<fut_lock, ui, edits>>
    /\ UNCHANGED <<content_cache, cache_lock, preview_state, queue, bg, receiver,
                   pends, extra, ticket, ran, requested, audit, edits>>
    /\ UNCHANGED vars

\* reload_preview, get_file_from_cache: CONTENT_CACHE.lock()
ReloadLock ==
    /\ Polling
    /\ runners[ui.id].pc \in {"lock_clear", "lock_read", "lock_import", "lock_store"}
    /\ cache_lock = "free"
    /\ cache_lock' = "ui"
    /\ runners' = [runners EXCEPT ![ui.id].pc =
                       CASE @ = "lock_clear" -> "clear"
                         [] @ = "lock_read" -> "read"
                         [] @ = "lock_import" -> "import"
                         [] OTHER -> "store"]
    /\ UNCHANGED <<content_cache, preview_state, fut_lock, queue, ui, bg, receiver,
                   pends, extra, ticket, ran, requested, audit, edits>>
    /\ UNCHANGED vars

\* reload_preview: dependency.clear(); current_root = path; the guard is
\* dropped at the end of the block.
ReloadClear ==
    /\ Polling
    /\ runners[ui.id].pc = "clear"
    /\ content_cache' = [content_cache EXCEPT !.dependency = {},
                                              !.current_root = runners[ui.id].path]
    /\ requested' = {}
    /\ cache_lock' = "free"
    /\ runners' = [runners EXCEPT ![ui.id].pc = "lock_read"]
    /\ UNCHANGED <<preview_state, fut_lock, queue, ui, bg, receiver, pends, extra,
                   ticket, ran, audit, edits>>
    /\ UNCHANGED vars

\* reload_preview: get_file_from_cache(path) for the root file.
ReloadRead ==
    /\ Polling
    /\ runners[ui.id].pc = "read"
    /\ LET g == get_file_from_cache(content_cache, runners[ui.id].path) IN
        /\ content_cache' = g.cache
        /\ runners' = [runners EXCEPT ![ui.id].pc = "build",
                                      ![ui.id].from = runners[ui.id].path :> g.r]
    /\ requested' = requested \cup {runners[ui.id].path}
    /\ cache_lock' = "free"
    /\ UNCHANGED <<preview_state, fut_lock, queue, ui, bg, receiver, pends, extra,
                   ticket, ran, audit, edits>>
    /\ UNCHANGED vars

\* The compiler meets an import and calls the file loader for path p; the
\* imports of a file are met in the order of their paths.
BuildImport(p) ==
    /\ Polling
    /\ runners[ui.id].pc = "build"
    /\ p # runners[ui.id].path
    /\ \A q \in DOMAIN runners[ui.id].from : q = runners[ui.id].path \/ q < p
    /\ runners' = [runners EXCEPT ![ui.id].pc = "lock_import", ![ui.id].imp = p]
    /\ UNCHANGED <<content_cache, cache_lock, preview_state, fut_lock, queue, ui,
                   bg, receiver, pends, extra, ticket, ran, requested, audit, edits>>
    /\ UNCHANGED vars

\* The file loader: get_file_from_cache(path) for an imported file.
ReloadImport ==
    /\ Polling
    /\ runners[ui.id].pc = "import"
    /\ LET g == get_file_from_cache(content_cache, runners[ui.id].imp) IN
        /\ content_cache' = g.cache
        /\ runners' = [runners EXCEPT ![ui.id].pc = "build",
                                      ![ui.id].imp = NoPath,
                                      ![ui.id].from = @ @@ (runners[ui.id].imp :> g.r)]
    /\ requested' = requested \cup {runners[ui.id].imp}
    /\ cache_lock' = "free"
    /\ UNCHANGED <<preview_state, fut_lock, queue, ui, bg, receiver, pends, extra,
                   ticket, ran, audit, edits>>
    /\ UNCHANGED vars

\* build_from_source / build_from_path .await returns Pending: poll returns
\* Pending, the closure returns, and the compiler keeps the waker.
BuildPending(max) ==
    /\ Polling
    /\ runners[ui.id].pc = "build"
    /\ ~runners[ui.id].waiting
    /\ pends < max
    /\ pends' = pends + 1
    /\ runners' = [runners EXCEPT ![ui.id].waiting = TRUE]
    /\ ClosureReturns
    /\ UNCHANGED <<content_cache, cache_lock, preview_state, queue, bg, receiver,
                   extra, ticket, ran, requested, audit, edits>>
    /\ UNCHANGED vars

\* The compiler returns; reload_preview swaps the handle or not and sends
\* the closing notification.
BuildDone ==
    /\ Polling
    /\ runners[ui.id].pc = "build"
    /\ ~runners[ui.id].waiting
    /\ LET f == reload_finish(preview_state, runners[ui.id], receiver) IN
        /\ preview_state' = f.state
        /\ IF f.n.panic
           THEN /\ runners' = [runners EXCEPT ![ui.id].pc = "panicked",
                                              ![ui.id].sent = f.n.sent]
                /\ ClosureReturns
           ELSE /\ runners' = [runners EXCEPT ![ui.id].pc = "lock_store",
                                              ![ui.id].sent = f.n.sent]
                /\ UNCHANGED <<fut_lock, ui, edits>>
    /\ UNCHANGED <<content_cache, cache_lock, queue, bg, receiver, pends, extra,
                   ticket, ran, requested, audit, edits>>
    /\ UNCHANGED vars

\* A mutant of sender_replace: the sender is dropped with the future.
sender_replace_dropped(cc) == cc

\* reload_preview's last line: sender.replace(sender) under the lock.
sender_replace(cc) == [cc EXCEPT !.sender = TRUE]

\* reload_preview: CONTENT_CACHE.lock().sender.replace(sender); the future
\* is Ready and the closure sets *fut_opt = None.
ReloadStore ==
    /\ Polling
    /\ runners[ui.id].pc = "store"
    /\ content_cache' = sender_replace(content_cache)
    /\ cache_lock' = "free"
    /\ runners' = [runners EXCEPT ![ui.id] = closure_ready([@ EXCEPT !.pc = "ready"])]
    /\ ClosureReturns
    /\ UNCHANGED <<preview_state, queue, bg, receiver, pends, extra, ticket, ran,
                   requested, audit, edits>>
    /\ UNCHANGED vars

\* The language server edits files and asks for previews; the compiler
\* never suspends.
PreviewNext ==
    \/ \E path \in Paths : LoadPreview(path, MaxRuns)
    \/ \E path \in Paths, content \in Contents : SetContentsCall(path, content, MaxEdits)
    \/ SetContentsLock
    \/ SetContentsBody
    \/ SetContentsLoad
    \/ UiTake
    \/ ClosureLock
    \/ ReloadNotify
    \/ ReloadLock
    \/ ReloadClear
    \/ ReloadRead
    \/ \E p \in Paths : BuildImport(p)
    \/ ReloadImport
    \/ BuildDone
    \/ ReloadStore

PreviewSpec == Init /\ [][PreviewNext]_pvars

\* One file is previewed and edited; the compiler may suspend and wakers
\* may be woken more than once.
RunnerNext ==
    \/ LoadPreview(1, RunnerRuns)
    \/ SetContentsCall(1, 1, RunnerEdits)
    \/ SetContentsLock
    \/ SetContentsBody
    \/ SetContentsLoad
    \/ \E id \in DOMAIN runners : Wake(id)
    \/ \E id \in DOMAIN runners : ExtraWake(id, MaxExtraWakes)
    \/ UiTake
    \/ ClosureLock
    \/ ReloadNotify
    \/ ReloadLock
    \/ ReloadClear
    \/ ReloadRead
    \/ BuildPending(MaxPends)
    \/ BuildDone
    \/ ReloadStore

RunnerSpec == Init /\ [][RunnerNext]_pvars

\* One file is previewed and edited, and the client may go away.
NotifyNext ==
    \/ LoadPreview(1, NotifyRuns)
    \/ \E content \in Contents : SetContentsCall(1, content, NotifyEdits)
    \/ SetContentsLock
    \/ SetContentsBody
    \/ SetContentsLoad
    \/ DropReceiver
    \/ UiTake
    \/ ClosureLock
    \/ ReloadNotify
    \/ ReloadLock
    \/ ReloadClear
    \/ ReloadRead
    \/ BuildDone
    \/ ReloadStore

NotifySpec == Init /\ [][NotifyNext]_pvars

\* The steps of the UI thread: the event loop running posted closures.
UiStep ==
    \/ UiTake
    \/ ClosureLock
    \/ ReloadNotify
    \/ ReloadLock
    \/ ReloadClear
    \/ ReloadRead
    \/ BuildPending(LivePends)
    \/ BuildDone
    \/ ReloadStore

\* The steps inside a set_contents call.
SetContentsStep ==
    \/ SetContentsLock
    \/ SetContentsBody
    \/ SetContentsLoad

LiveNext ==
    \/ LoadPreview(1, LiveRuns)
    \/ \E content \in {1, NumContents} : SetContentsCall(1, content, LiveEdits)
    \/ SetContentsStep
    \/ \E id \in DOMAIN runners : Wake(id)
    \/ UiStep

\* Both threads keep running: the event loop runs what is posted, a call
\* of set_contents goes on, and a suspended compile finishes and wakes its
\* waker.  The language server need not make any call; the contents it
\* writes are one that compiles and the one that does not.
LiveSpec ==
    /\ Init
    /\ [][LiveNext]_pvars
    /\ WF_pvars(UiStep)
    /\ WF_pvars(SetContentsStep)
    /\ \A id \in 1..(LiveRuns + LiveEdits) : WF_pvars(Wake(id))

\* ---------------------------------------------------------------- claims
\* The indices get finds an entry at.
Occupants == {i \in Indices : get(cache, i) # NoEntry}

\* The entries the program holds: those in the cache and the pending one.
Held == {get(cache, i) : i \in Occupants} \cup (IF pending = NoEntry THEN {} ELSE {pending})

\* The index an insert step returned: the slot that went from empty to
\* occupied over the step.
Filled == {i \in Indices : get(cache, i) = NoEntry /\ get(cache', i) # NoEntry}

\* C1: a caller that stored (index, generation) at insert time and compares
\* the stored generation with generation() never accepts a handle issued
\* before a clear: for each such handle, get(index) is not-found or the
\* stored generation differs from generation().
C1_StaleHandleRejected ==
    \A h \in handles :
        h.clears < nClears =>
            \/ get(cache, h.index) = NoEntry
            \/ h.generation # generation(cache)

\* C1 witness: an index issued before a clear has been reused by a later
\* insert, and only the generation tells the two apart.
C1_Witness ==
    \E h \in handles :
        /\ h.clears < nClears
        /\ get(cache, h.index) # NoEntry
        /\ h.generation # generation(cache)

\* C2: clear() increases generation() by exactly 1 and empties the slot
\* table: every index occupied at the clear is not-found for get and
\* get_mut until an insert returns it again.
C2_ClearEmptiesAndBumps ==
    /\ [](\A i \in cleared : get(cache, i) = NoEntry /\ get_mut(cache, i) = NoEntry)
    /\ [][Clear(MaxClears) =>
            /\ generation(cache') = generation(cache) + 1
            /\ \A i \in Indices :
                  get(cache', i) = NoEntry /\ get_mut(cache', i) = NoEntry]_vars

\* C2 witness: after a clear of a cache that held entries, one of the
\* cleared indices has been reinserted and another is still not-found.
C2_Witness ==
    /\ generation(cache) = 2
    /\ cleared # {}
    /\ \E i \in issued \ cleared : get(cache, i) # NoEntry

\* C3: generation() is 1 on a new cache, never decreases and is changed by
\* clear() alone, so it always equals 1 plus the number of clear() calls.
C3_GenerationCountsClears ==
    /\ [](generation(cache) = 1 + nClears)
    /\ [][/\ generation(cache') >= generation(cache)
          /\ ~Clear(MaxClears) => generation(cache') = generation(cache)]_vars

\* C3 witness: two clears and further inserts and removes have happened.
C3_Witness ==
    /\ nClears = 2
    /\ generation(cache) = 3
    /\ freed # {}
    /\ nLive > 0

\* C4: the indices returned by inserts with no remove or clear between
\* them are pairwise distinct; insert never returns an occupied index, so
\* no live entry is overwritten and live entries never share an index.
C4_InsertIndexFresh ==
    /\ [](Cardinality(Occupants) = nLive)
    /\ [][Insert(MaxSlots, FALSE) =>
            /\ Cardinality(run') = Cardinality(run) + 1
            /\ Cardinality(Filled) = 1
            /\ \A i \in Occupants : get(cache', i) = get(cache, i)]_vars

\* C4 witness: three inserts in a row on a new cache.
C4_Witness ==
    /\ Cardinality(run) = 3
    /\ nClears = 0
    /\ Cardinality(issued) = 3
    /\ nLive = 3

\* C5: get and get_mut return not-found for an index no insert ever
\* returned and for an index removed and not returned by an insert since;
\* they agree on found/not-found for every index.
C5_NotFound ==
    /\ \A i \in Indices :
          (i \notin issued \/ i \in freed) =>
              get(cache, i) = NoEntry /\ get_mut(cache, i) = NoEntry
    /\ \A i \in Indices :
          (get(cache, i) = NoEntry) <=> (get_mut(cache, i) = NoEntry)

\* C5 witness: a removed index beside a live one and a never-issued one.
C5_Witness ==
    /\ freed # {}
    /\ Occupants # {}
    /\ \E i \in Indices : i \notin issued

\* C6: an index returned by insert(e) denotes e until remove(index) or
\* clear(), whatever happens at other indices; every occupied slot was
\* returned by an insert in this generation and not removed since.
C6_IndexDenotesEntry ==
    /\ \A i \in DOMAIN live :
          get(cache, i) # NoEntry /\ get(cache, i).data = live[i]
    /\ \A i \in Occupants : i \in DOMAIN live

\* C6 witness: two live entries with different payloads survive the removal
\* of a third index.
C6_Witness ==
    /\ freed # {}
    /\ \E i, j \in DOMAIN live : i # j /\ live[i] # live[j]

\* C7: insert returns a previously freed index when there is one and the
\* next fresh index otherwise (0, 1, 2 on a new cache); right after
\* remove(i) an insert returns i, and this stays so until the next insert,
\* remove or clear; insert and remove leave the other entries and the
\* generation alone.
C7_SlotReuse ==
    /\ [](issued = 0..(Cardinality(issued) - 1))
    /\ [][/\ Insert(MaxSlots, FALSE) =>
                /\ \E k \in Indices :
                      /\ Filled = {k}
                      /\ IF issued \ Occupants # {}
                         THEN k \in issued \ Occupants
                         ELSE k = Cardinality(issued)
                      /\ \A j \in Indices \ {k} : get(cache', j) = get(cache, j)
                /\ generation(cache') = generation(cache)
          /\ \A i \in Indices :
                (Remove(i) /\ ~panicked') =>
                    /\ \A d \in Payloads :
                          insert(cache', CachedGraphicsData_new(d, {})).index = i
                    /\ \A j \in Indices \ {i} : get(cache', j) = get(cache, j)
                    /\ generation(cache') = generation(cache)
          /\ ((\E d \in Payloads : New(d, {})) \/ (\E i \in Indices : GetMutReplace(i))) =>
                insert(cache', CachedGraphicsData_new(1, {})).index
                    = insert(cache, CachedGraphicsData_new(1, {})).index]_vars

\* C7 witness: on a new cache three inserts returned 0, 1, 2, index 1 was
\* removed and the next insert returned 1 again.
C7_Witness ==
    /\ nClears = 0
    /\ issued = {0, 1, 2}
    /\ run = {1}
    /\ DOMAIN live = {0, 1, 2}
    /\ generation(cache) = 1

\* C8: remove(index) on an occupied index returns the entry stored there,
\* frees that slot only and leaves the other entries and the generation
\* unchanged; on an index that is not occupied it panics.
C8_RemoveContract ==
    [][\A i \in Indices :
          Remove(i) =>
              IF get(cache, i) # NoEntry
              THEN /\ ~panicked'
                   /\ remove(cache, i).data = get(cache, i)
                   /\ get(cache', i) = NoEntry
                   /\ \A j \in Indices \ {i} : get(cache', j) = get(cache, j)
                   /\ generation(cache') = generation(cache)
              ELSE /\ panicked'
                   /\ remove(cache, i).panic]_vars

\* C8 witness: an entry was removed beside a live one, and a remove of an
\* index that is not occupied then panicked.
C8_Witness ==
    /\ panicked
    /\ freed # {}
    /\ Occupants # {}

\* C9: an entry whose computation read a property reports dirty once that
\* property's value has changed, whatever happens afterwards, and an entry
\* just constructed by CachedGraphicsData::new reports not dirty.
C9_DirtyAfterChange ==
    /\ [](\A e \in Held : e.changed => TrackerIsDirty(e.dependency_tracker))
    /\ [][(\E reads \in SUBSET Props : New(1, reads)) =>
            ~TrackerIsDirty(pending'.dependency_tracker)]_vars

\* C9 witness: a cached entry is dirty because a property it read changed,
\* and the recomputed entry for the same reads is not dirty.
C9_Witness ==
    \E i \in Occupants :
        /\ get(cache, i).changed
        /\ TrackerIsDirty(get(cache, i).dependency_tracker)
        /\ pending # NoEntry
        /\ pending.reads = get(cache, i).reads
        /\ ~TrackerIsDirty(pending.dependency_tracker)

\* C10: an entry whose computation read no property never reports dirty,
\* whatever properties change and whatever the cache does.
C10_NoSpuriousDirty ==
    \A e \in Held : e.reads = {} => ~TrackerIsDirty(e.dependency_tracker)

\* C10 witness: an entry that read nothing stayed clean in the cache over a
\* property change.
C10_Witness ==
    \E i \in Occupants :
        /\ get(cache, i).reads = {}
        /\ get(cache, i).outlived
        /\ ~TrackerIsDirty(get(cache, i).dependency_tracker)

\* -------------------------------------------------- claims: live preview
\* Nothing is running or scheduled: the language server is between calls,
\* the event loop has nothing to run, and every reload future created has
\* returned Ready.
Quiescent ==
    /\ bg = Idle
    /\ ui = NoClosure
    /\ queue = <<>>
    /\ runners # <<>>
    /\ \A i \in DOMAIN runners : runners[i].pc = "ready"

\* The content the cache holds for every dependency of the current preview
\* compiles.
DependenciesCompile ==
    \A p \in content_cache.dependency : content_cache.source_code[p] # NumContents

\* C11: last-writer-wins.  After every scheduled reload has completed, the
\* preview has been built from the last content written to each dependency
\* of the current root (when that content compiles), including when the
\* write arrived while an earlier reload was in flight.
C11_LastWriterWins ==
    Quiescent /\ DependenciesCompile =>
        /\ preview_state.handle.root = content_cache.current_root
        /\ \A p \in content_cache.dependency :
            /\ p \in DOMAIN preview_state.handle.from
            /\ preview_state.handle.from[p] = content_cache.source_code[p]

\* C11's case: a set_contents on a dependency path has written the cache
\* while a reload that already read that path is still in flight.
C11_Witness ==
    /\ bg.pc = "idle"
    /\ edits > 0
    /\ \E i \in DOMAIN runners :
        /\ runners[i].fut
        /\ \E p \in DOMAIN runners[i].from :
            /\ p \in content_cache.dependency
            /\ runners[i].from[p] # content_cache.source_code[p]

\* The notifications a reload future has sent so far.
Sent(i) == runners[i].sent
LastSent(i) == Sent(i)[Len(Sent(i))]

\* C12: a reload whose compile failed sends a Health::Error notification
\* and leaves PREVIEW_STATE.handle as it was; the handle changes only in the
\* step where a compile returned a component, and then to the component
\* built from everything that reload read.
C12_FailedCompileKeepsPreview ==
    [][/\ BuildDone /\ ~Compiles(runners[ui.id].from) =>
            /\ preview_state' = preview_state
            /\ LastSent(ui.id)'.health = "Error"
       /\ preview_state' # preview_state =>
            /\ BuildDone
            /\ Compiles(runners[ui.id].from)
            /\ preview_state'.handle = [root |-> runners[ui.id].path,
                                        from |-> runners[ui.id].from]
            /\ LastSent(ui.id)'.health = "Ok"]_pvars

\* C12's case: a reload failed while an earlier preview was on screen, and
\* that preview is still there.
C12_Witness ==
    /\ preview_state.handle.root # NoPath
    /\ \E i \in DOMAIN runners :
        /\ runners[i].pc \in {"lock_store", "store", "ready"}
        /\ LastSent(i).health = "Error"

\* Reload future i was polled in this step: it moved on, sent something or
\* read a file.
Advanced(i) ==
    \/ runners'[i].pc # runners[i].pc
    \/ runners'[i].sent # runners[i].sent
    \/ runners'[i].from # runners[i].from

\* C13: no part of reload_preview runs on the thread that calls
\* load_preview or set_contents.  A future is polled only in a step of the
\* closure the UI event loop is running for it; a call leaves the new
\* future unpolled with its closure posted at the end of the queue; and
\* PREVIEW_STATE changes only in a step of a running closure.
C13_OnlyEnqueued ==
    [][/\ \A i \in DOMAIN runners : Advanced(i) => Polling /\ ui.id = i
       /\ \A i \in DOMAIN runners' \ DOMAIN runners :
            /\ runners'[i] = reload_preview_future(runners'[i].path)
            /\ queue' = Append(queue, [id |-> i, ticket |-> ticket'])
            /\ preview_state' = preview_state
            /\ \A j \in DOMAIN runners : runners'[j] = runners[j]
       /\ preview_state' # preview_state => Polling]_pvars

\* C13's case: load_preview and a set_contents that scheduled a reload
\* have both returned, and the reload they asked for has not started.
C13_Witness ==
    /\ bg = Idle
    /\ edits > 0
    /\ \E i \in DOMAIN runners :
        /\ i > 1
        /\ runners[i].pc = "start"
        /\ \E k \in DOMAIN queue : queue[k].id = i
    /\ \E i \in DOMAIN runners : runners[i].pc = "ready"
    /\ ~content_cache.sender

\* C14: a notification that cannot be delivered changes nothing else.
\* Whether the receiver exists or not, the step that sends "Loading
\* Preview" goes on to the reload, the step after the compile swaps the
\* handle exactly when the compile succeeded and goes on to store the
\* sender, the last step stores it, and no poll panics.
C14_DeliveryFailureIgnored ==
    [][/\ ReloadNotify => runners'[ui.id].pc = "lock_clear"
       /\ BuildDone =>
            /\ runners'[ui.id].pc = "lock_store"
            /\ preview_state' =
                 IF Compiles(runners[ui.id].from)
                 THEN [handle |-> [root |-> runners[ui.id].path,
                                   from |-> runners[ui.id].from]]
                 ELSE preview_state
       /\ ReloadStore => content_cache'.sender /\ runners'[ui.id].pc = "ready"
       /\ \A i \in DOMAIN runners' : runners'[i].pc # "panicked"]_pvars

\* C14's case: the receiver was gone before the reload sent anything, and
\* the reload has compiled, swapped the preview and stored its sender.
C14_Witness ==
    /\ Len(runners) = 1
    /\ runners[1].pc = "ready"
    /\ Len(Sent(1)) = 2
    /\ \A k \in DOMAIN Sent(1) : ~Sent(1)[k].delivered
    /\ LastSent(1).msg = "Preview Loaded"
    /\ preview_state.handle.root # NoPath
    /\ content_cache.sender

\* The positions of reload_preview before and after its closing
\* notification.
BeforeClosing == {"lock_clear", "clear", "lock_read", "read", "build", "lock_import", "import"}
AfterClosing == {"lock_store", "store", "ready"}

Loading == [msg |-> "Loading Preview", health |-> "Ok"]
Closing == {[msg |-> "Preview Loaded", health |-> "Ok"],
            [msg |-> "Preview not upated", health |-> "Error"]}
Notification(n) == [msg |-> n.msg, health |-> n.health]

\* What reload future i has sent fits where it is.
SentFits(i) ==
    /\ runners[i].pc = "start" => Sent(i) = <<>>
    /\ runners[i].pc \in BeforeClosing =>
        /\ Len(Sent(i)) = 1
        /\ Notification(Sent(i)[1]) = Loading
    /\ runners[i].pc \in AfterClosing =>
        /\ Len(Sent(i)) = 2
        /\ Notification(Sent(i)[1]) = Loading
        /\ Notification(Sent(i)[2]) \in Closing
    /\ runners[i].pc \in {"lock_store", "store"} =>
        (LastSent(i).health = "Ok" <=> Compiles(runners[i].from))

\* C15: a run of reload_preview sends "Loading Preview" with Health::Ok
\* first and then exactly one closing notification, "Preview Loaded" with
\* Health::Ok after a successful compile and a Health::Error one after a
\* failed compile, two in all; and the step that puts the sender back into
\* the content cache is taken by a run that has sent both.
C15_TwoNotifications ==
    [][/\ \A i \in DOMAIN runners' : SentFits(i)'
       /\ content_cache'.sender /\ ~content_cache.sender =>
            /\ Polling
            /\ Len(Sent(ui.id)) = 2
            /\ runners'[ui.id].pc = "ready"]_pvars

\* C15's case: one reload ended with "Preview Loaded" and another with an
\* error, and both have put the sender back.
C15_Witness ==
    /\ content_cache.sender
    /\ \E i, j \in DOMAIN runners :
        /\ runners[i].pc = "ready" /\ LastSent(i).health = "Ok"
        /\ runners[j].pc = "ready" /\ LastSent(j).health = "Error"

\* C16: set_contents(path, content) always records content for path and
\* touches no other file's content; it goes on to load_preview exactly when
\* path is in the dependency set and a sender is stored, and then for the
\* current_root of that moment; and the dependency set is the set of paths
\* asked of get_file_from_cache since the latest dependency.clear(),
\* cached or not.
C16_SetContentsSchedules ==
    [][/\ SetContentsBody =>
            /\ content_cache'.source_code =
                 [content_cache.source_code EXCEPT ![bg.path] = bg.content]
            /\ bg'.pc = "sc_load" <=>
                 bg.path \in content_cache.dependency /\ content_cache.sender
            /\ bg'.pc = "sc_load" => bg'.path = content_cache.current_root
            /\ bg'.pc # "sc_load" => bg' = Idle
       /\ SetContentsLoad =>
            /\ Len(runners') = Len(runners) + 1
            /\ runners'[Len(runners')] = reload_preview_future(bg.path)
       /\ content_cache'.dependency = requested']_pvars

\* C16's case: a reload read its root and an import, neither of which had
\* cached content, and a set_contents on the import is about to schedule a
\* reload of the root.
C16_Witness ==
    /\ bg.pc = "sc_load"
    /\ bg.path = content_cache.current_root
    /\ \E p \in content_cache.dependency :
        /\ p # content_cache.current_root
        /\ content_cache.source_code[p] # OnDisk
        /\ p \in DOMAIN preview_state.handle.from
        /\ preview_state.handle.from[p] = OnDisk
        /\ preview_state.handle.from[content_cache.current_root] = OnDisk

\* C17: resumptions run one at a time in the order their wakes were
\* posted.  The closure the event loop takes was posted before every
\* closure still queued and after every closure taken earlier; and a future
\* is polled only by the running closure, which holds the lock on it, so no
\* two polls of a future overlap.
C17_FifoNoOverlap ==
    [][/\ UiTake =>
            /\ ran' > ran
            /\ \A k \in DOMAIN queue' : queue'[k].ticket > ran'
       /\ \A i \in DOMAIN runners' :
            (fut_lock'[i] = "ui") <=> (Polling' /\ ui'.id = i)
       /\ \A i \in DOMAIN runners : Advanced(i) => fut_lock[i] = "ui"]_pvars

\* C17's case: a future is being polled while a second wake of the same
\* future and the closure of another future wait in the queue.
C17_Witness ==
    /\ Polling
    /\ \E k \in DOMAIN queue : queue[k].id = ui.id
    /\ \E k \in DOMAIN queue : queue[k].id # ui.id

\* C18: a future that returned Ready is never polled again.  A runner whose
\* future returned Ready holds no future, no closure polls such a runner,
\* and the closure of a wake that arrives afterwards returns having changed
\* nothing.
C18_NoPollAfterReady ==
    [][/\ \A i \in DOMAIN runners' : runners'[i].pc = "ready" => ~runners'[i].fut
       /\ audit' = {}
       /\ \A i \in DOMAIN runners : runners[i].pc = "ready" => ~Advanced(i)
       /\ ClosureLock /\ runners[ui.id].pc = "ready" =>
            /\ ui' = NoClosure
            /\ UNCHANGED <<runners, fut_lock, preview_state, content_cache, cache_lock>>]_pvars

\* C18's case: a waker was woken more often than the future needed, and
\* the closure of a wake is running after the future returned Ready.
C18_Witness ==
    /\ ui.phase = "lock"
    /\ runners[ui.id].pc = "ready"
    /\ extra > 0

\* The reload futures a run of the fair specification can create.
LiveIds == 1..(LiveRuns + LiveEdits)

\* Reload future i has been polled and has not returned Ready.
InFlight(i) == i \in DOMAIN runners /\ runners[i].pc \notin {"start", "ready"}

\* C19: every reload_preview that starts returns Ready, its last step
\* having stored the sender in the content cache, whether its compile
\* succeeded or failed; so when no reload is in flight or scheduled, a
\* set_contents on a dependency path schedules a reload, also after a
\* failed one.
C19_SenderComesBack ==
    /\ \A i \in LiveIds : InFlight(i) ~> (i \in DOMAIN runners /\ runners[i].pc = "ready")
    /\ [][/\ ReloadStore => content_cache'.sender
          /\ /\ SetContentsBody
             /\ runners # <<>>
             /\ \A i \in DOMAIN runners : runners[i].pc = "ready"
             /\ bg.path \in content_cache.dependency
             => bg'.pc = "sc_load"]_pvars

\* C19's case: a reload failed and put its sender back, and a set_contents
\* on its root has scheduled a new reload.
C19_Witness ==
    /\ Len(runners) = 2
    /\ runners[1].pc = "ready"
    /\ LastSent(1).health = "Error"
    /\ runners[2].path = content_cache.current_root
    /\ edits > 0

\* The positions where reload_preview is at CONTENT_CACHE.lock(), and those
\* between a lock() and the drop of its guard.
AtCacheLock == {"lock_clear", "lock_read", "lock_import", "lock_store"}
InCacheLock == {"clear", "read", "import", "store"}

\* The running closure waits for the content-cache lock.
UiWaits == Polling /\ runners[ui.id].pc \in AtCacheLock

\* C20: the locks cannot deadlock.  set_contents holds the content-cache
\* lock only over its body, not in load_preview where the closure is
\* posted; a reload holds it only between a lock() and the end of that
\* block, never where the compile is awaited, and only inside a closure
\* that holds its runner's future lock (the one nesting); the language
\* server's thread holds no future lock; and every thread waiting for a
\* lock gets it.
C20_NoDeadlock ==
    /\ [](cache_lock = "bg" => bg.pc = "sc_body")
    /\ [](cache_lock = "ui" =>
            /\ Polling
            /\ runners[ui.id].pc \in InCacheLock
            /\ fut_lock[ui.id] = "ui")
    /\ [](\A i \in DOMAIN fut_lock : fut_lock[i] # "free" => fut_lock[i] = "ui" /\ ui.id = i)
    /\ (bg.pc = "sc_lock") ~> (cache_lock = "bg")
    /\ UiWaits ~> (cache_lock = "ui")
    /\ (ui.phase = "lock") ~> (ui.phase # "lock")

\* C20's case: the running closure, holding its future's lock, waits for
\* the content-cache lock while set_contents holds it.
C20_Witness ==
    /\ UiWaits
    /\ fut_lock[ui.id] = "ui"
    /\ cache_lock = "bg"

====
